---- MODULE Spec2Model ----
(***************************************************************************)
(* Model of the routed HTTP server of node-fundamentals-course:            *)
(*   - buildRoutePath      (src/utils/build-route-path.js)                 *)
(*   - extractQueryParams  (src/utils/extract-query-params.js)             *)
(*   - the route table     (src/routes.js)                                 *)
(*   - the request callback of http.createServer (the routed server.js)    *)
(*                                                                         *)
(* A JavaScript string is a sequence of one-character strings, so that     *)
(* replaceAll, split, substr and the regular expression act on characters. *)
(* A JavaScript object with string keys is a function whose domain is the  *)
(* set of its own keys.  The value undefined is Undefined.                 *)
(***************************************************************************)
EXTENDS Integers, Sequences, FiniteSets, TLC

\* ------------------------------------------------------------------------
\* Bounds of the model
\* ------------------------------------------------------------------------

\* Largest number of entries of the route table.
MaxRoutes == 2

\* Largest number of '&'-separated segments of a generated query string.
MaxSegments == 3

\* ------------------------------------------------------------------------
\* Characters
\* ------------------------------------------------------------------------

Lower == {"a","b","c","d","e","f","g","h","i","j","k","l","m",
          "n","o","p","q","r","s","t","u","v","w","x","y","z"}

Upper == {"A","B","C","D","E","F","G","H","I","J","K","L","M",
          "N","O","P","Q","R","S","T","U","V","W","X","Y","Z"}

Digits == {"0","1","2","3","4","5","6","7","8","9"}

\* the class [a-zA-Z] of routeParametersRegex
Letters == Lower \cup Upper

\* mutation of ParamClass: the class also accepts uppercase letters and '.'
ParamClass_wide == Lower \cup Upper \cup Digits \cup {"-", "_", "."}

\* the class [a-z0-9-_] of the capture group that replaces a parameter
ParamClass == Lower \cup Digits \cup {"-", "_"}

\* the value undefined: no JavaScript string, since every element of a
\* string is one character
Undefined == <<"undefined">>

\* the name of the capture group appended by buildRoutePath
QueryName == <<"q","u","e","r","y">>

\* ------------------------------------------------------------------------
\* String primitives
\* ------------------------------------------------------------------------

\* index of the first occurrence of character c in s at or after i, or 0
RECURSIVE IndexFrom(_, _, _)
IndexFrom(s, c, i) ==
  IF i > Len(s) THEN 0
  ELSE IF s[i] = c THEN i
  ELSE IndexFrom(s, c, i + 1)

UpperSeq == <<"A","B","C","D","E","F","G","H","I","J","K","L","M",
             "N","O","P","Q","R","S","T","U","V","W","X","Y","Z">>

LowerSeq == <<"a","b","c","d","e","f","g","h","i","j","k","l","m",
             "n","o","p","q","r","s","t","u","v","w","x","y","z">>

\* String.prototype.toLowerCase
ToLowerChar(c) ==
  IF c \in Upper THEN LowerSeq[CHOOSE i \in 1..26 : UpperSeq[i] = c] ELSE c

ToLowerCase(s) == [i \in 1..Len(s) |-> ToLowerChar(s[i])]

\* mutation of Substr1: the leading '?' is not removed
Substr1_keep(s) == s

\* String.prototype.substr(1)
Substr1(s) == SubSeq(s, 2, Len(s))

\* String.prototype.split(sep) for a one-character separator: every
\* occurrence of sep separates two pieces; the result is never empty
RECURSIVE Split(_, _)
Split(s, sep) ==
  LET k == IndexFrom(s, sep, 1) IN
  IF k = 0 THEN <<s>>
  ELSE <<SubSeq(s, 1, k - 1)>> \o Split(SubSeq(s, k + 1, Len(s)), sep)

\* ------------------------------------------------------------------------
\* buildRoutePath
\* ------------------------------------------------------------------------

\* mutation of NameEnd: the name runs over letters, digits and '_'
RECURSIVE NameEnd_word(_, _)
NameEnd_word(path, i) ==
  IF i < Len(path) /\ path[i + 1] \in Letters \cup Digits \cup {"_"}
    THEN NameEnd_word(path, i + 1) ELSE i

\* last index of the run of letters that starts at i
RECURSIVE NameEnd(_, _)
NameEnd(path, i) ==
  IF i < Len(path) /\ path[i + 1] \in Letters THEN NameEnd(path, i + 1) ELSE i

\* path.replaceAll(/:([a-zA-Z]+)/g, "(?<$1>[a-z0-9-_]+)"), from index i.
\* The regular expression source is kept as a sequence of tokens: a token
\* "grp" stands for the text (?<name>[a-z0-9-_]+), a token "chr" for one
\* character copied from the template.
RECURSIVE ReplaceAllFrom(_, _)
ReplaceAllFrom(path, i) ==
  IF i > Len(path) THEN <<>>
  ELSE IF path[i] = ":" /\ i < Len(path) /\ path[i + 1] \in Letters
    THEN LET e == NameEnd(path, i + 1) IN
         <<[t |-> "grp", v |-> SubSeq(path, i + 1, e)]>>
           \o ReplaceAllFrom(path, e + 1)
    ELSE <<[t |-> "chr", v |-> <<path[i]>>]>> \o ReplaceAllFrom(path, i + 1)

pathWithParams(path) == ReplaceAllFrom(path, 1)

\* names of the capture groups of a source, in order of appearance
GroupNames(source) ==
  LET idx == {i \in 1..Len(source) : source[i].t = "grp"} IN
  [i \in idx |-> source[i].v]

\* mutation of NewRegExp: a repeated capture name is accepted
NewRegExp_noCheck(source) == [error |-> FALSE, nodes |-> source]

\* new RegExp(`^${pathWithParams}(?<query>\\?(.*))?$`).  The constructor
\* throws a SyntaxError when two capture groups have the same name, the
\* appended group "query" included.  A "chr" token "." is the wildcard of
\* the regular expression; the other characters of the model's templates
\* have no special meaning in a regular expression.
NewRegExp(source) ==
  LET names == GroupNames(source)
      dup == \/ \E i, j \in DOMAIN names : i < j /\ names[i] = names[j]
             \/ \E i \in DOMAIN names : names[i] = QueryName
  IN  IF dup THEN [error |-> TRUE, nodes |-> <<>>]
             ELSE [error |-> FALSE, nodes |-> source]

buildRoutePath(path) == NewRegExp(pathWithParams(path))

\* ------------------------------------------------------------------------
\* Matching: RegExp.prototype.test and String.prototype.match
\* ------------------------------------------------------------------------

NoMatch == [matched |-> FALSE, groups |-> <<>>]

\* one more than the last index of the run of ParamClass characters that
\* starts at j (j itself when str[j] is not in the class)
RECURSIVE ClassRunEnd(_, _)
ClassRunEnd(str, j) ==
  IF j <= Len(str) /\ str[j] \in ParamClass THEN ClassRunEnd(str, j + 1) ELSE j

\* mutation of MatchTail: the pattern ends with $ and has no query group
MatchTail_endOnly(str, j, caps) ==
  IF j = Len(str) + 1
    THEN [matched |-> TRUE,
          groups |-> [n \in DOMAIN caps \cup {QueryName} |->
                        IF n = QueryName THEN Undefined ELSE caps[n]]]
  ELSE [matched |-> FALSE, groups |-> <<>>]

\* the tail (?<query>\?(.*))?$ at position j: the optional group is tried
\* first, and .* takes the rest of the string
MatchTail(str, j, caps) ==
  IF j <= Len(str) /\ str[j] = "?"
    THEN [matched |-> TRUE,
          groups |-> [n \in DOMAIN caps \cup {QueryName} |->
                        IF n = QueryName THEN SubSeq(str, j, Len(str))
                        ELSE caps[n]]]
  ELSE IF j = Len(str) + 1
    THEN [matched |-> TRUE,
          groups |-> [n \in DOMAIN caps \cup {QueryName} |->
                        IF n = QueryName THEN Undefined ELSE caps[n]]]
  ELSE NoMatch

\* backtracking match of nodes[i..] against str[j..]; a group is greedy:
\* it first takes the longest run and gives characters back one at a time
RECURSIVE MatchFrom(_, _, _, _, _)
RECURSIVE TryGroup(_, _, _, _, _, _)
MatchFrom(nodes, i, str, j, caps) ==
  IF i > Len(nodes) THEN MatchTail(str, j, caps)
  ELSE IF nodes[i].t = "grp"
    THEN TryGroup(nodes, i, str, j, ClassRunEnd(str, j), caps)
  ELSE IF j > Len(str) THEN NoMatch
  ELSE IF nodes[i].v = <<".">> \/ nodes[i].v = <<str[j]>>
    THEN MatchFrom(nodes, i + 1, str, j + 1, caps)
  ELSE NoMatch

\* the group nodes[i] captures str[j..k-1], for k from the longest down
TryGroup(nodes, i, str, j, k, caps) ==
  IF k <= j THEN NoMatch
  ELSE LET name == nodes[i].v
           caps2 == [n \in DOMAIN caps \cup {name} |->
                       IF n = name THEN SubSeq(str, j, k - 1) ELSE caps[n]]
           r == MatchFrom(nodes, i + 1, str, k, caps2)
       IN  IF r.matched THEN r ELSE TryGroup(nodes, i, str, j, k - 1, caps)

\* str.match(re): the match result with its named groups, or no match
RegExpMatch(re, str) == MatchFrom(re.nodes, 1, str, 1, <<>>)

\* re.test(str)
RegExpTest(re, str) == RegExpMatch(re, str).matched

\* ------------------------------------------------------------------------
\* extractQueryParams
\* ------------------------------------------------------------------------

EmptyObject == <<>>

\* mutation of ReduceCallback: a key already present keeps its first value
ReduceCallback_keepFirst(queryParams, param) ==
  LET parts == Split(param, "=")
      key == parts[1]
      value == IF Len(parts) >= 2 THEN parts[2] ELSE Undefined
  IN  IF key \in DOMAIN queryParams THEN queryParams
      ELSE [k \in DOMAIN queryParams \cup {key} |->
              IF k = key THEN value ELSE queryParams[k]]

\* mutation of ReduceCallback: a segment without '=' is skipped
ReduceCallback_skip(queryParams, param) ==
  LET parts == Split(param, "=")
      key == parts[1]
  IN  IF Len(parts) < 2 THEN queryParams
      ELSE [k \in DOMAIN queryParams \cup {key} |->
              IF k = key THEN parts[2] ELSE queryParams[k]]

\* the reduce callback: const [key, value] = param.split("=");
\* queryParams[key] = value; return queryParams
ReduceCallback(queryParams, param) ==
  LET parts == Split(param, "=")
      key == parts[1]
      value == IF Len(parts) >= 2 THEN parts[2] ELSE Undefined
  IN  [k \in DOMAIN queryParams \cup {key} |->
         IF k = key THEN value ELSE queryParams[k]]

\* Array.prototype.reduce over params[i..] with accumulator acc
RECURSIVE Reduce(_, _, _)
Reduce(params, i, acc) ==
  IF i > Len(params) THEN acc
  ELSE Reduce(params, i + 1, ReduceCallback(acc, params[i]))

extractQueryParams(query) == Reduce(Split(Substr1(query), "&"), 1, EmptyObject)

\* ------------------------------------------------------------------------
\* Inputs of the model: templates, methods, URLs, query strings
\* ------------------------------------------------------------------------

\* Array.prototype.join(sep) of the pieces from index i on
RECURSIVE JoinFrom(_, _, _)
JoinFrom(pieces, i, sep) ==
  IF i > Len(pieces) THEN <<>>
  ELSE IF i = Len(pieces) THEN pieces[i]
  ELSE pieces[i] \o sep \o JoinFrom(pieces, i + 1, sep)

Join(pieces, sep) == JoinFrom(pieces, 1, sep)

T_users == <<"/","u","s","e","r","s">>
T_usersId == <<"/","u","s","e","r","s","/",":","i","d">>
T_itemsId == <<"/","i","t","e","m","s","/",":","i","d">>
T_any == <<"/",":","x">>
T_two == <<"/",":","a","/",":","b">>
T_dupId == <<"/","a","/",":","i","d","/","b","/",":","i","d">>
T_query == <<"/","s","/",":","q","u","e","r","y">>

\* the templates a route may be declared with: those of routes.js, the
\* template of the items example, a catch-all, a template with two
\* parameters, and two templates whose capture names collide
Templates == {T_users, T_usersId, T_itemsId, T_any, T_two, T_dupId, T_query}

\* the methods routes are declared with
RouteMethods == {"GET", "POST"}

\* the methods of incoming requests
RequestMethods == {"GET", "POST", "DELETE"}

\* the '/'-separated pieces of a template or of a URL path
Pieces(s) == Split(s, "/")

\* a piece of a template that declares a parameter, and the declared name
IsParamPiece(p) == Len(p) >= 2 /\ p[1] = ":"
ParamName(p) == SubSeq(p, 2, Len(p))

\* the names declared by a template, each taken up to the next '/'
DeclaredNames(t) ==
  LET ps == Pieces(t) IN
  {ParamName(ps[i]) : i \in {k \in 1..Len(ps) : IsParamPiece(ps[k])}}

\* the URL path obtained from template t by writing sigma[name] in the
\* place of each ':name'
Substitute(t, sigma) ==
  LET ps == Pieces(t) IN
  Join([i \in 1..Len(ps) |->
          IF IsParamPiece(ps[i]) THEN sigma[ParamName(ps[i])] ELSE ps[i]],
       <<"/">>)

V_42 == <<"4","2">>
V_word == <<"a","-","_">>
V_two == <<"/","4","2","/","a","-","_">>
U_items42 == <<"/","i","t","e","m","s","/","4","2">>

\* values over lowercase letters, digits, hyphen and underscore
GoodValues == {V_42, V_word}

\* the empty value, and values with a character outside that set
BadValues == {<<>>, <<"A">>, <<"a",".","b">>, <<"a","/","b">>}

Values == GoodValues \cup BadValues

\* the values written at the parameters of a template to obtain the paths
\* of requests
ValuesFor(t) ==
  IF t = T_two THEN GoodValues \cup {<<>>}
  ELSE IF t = T_itemsId THEN {V_42}
  ELSE Values

\* the templates buildRoutePath compiles without error
GoodTemplates == {T_users, T_usersId, T_itemsId, T_any, T_two}

\* the paths of requests
Paths ==
  UNION {{Substitute(t, sigma) : sigma \in [DeclaredNames(t) -> ValuesFor(t)]} :
           t \in GoodTemplates}

Q_active == <<"?","a","c","t","i","v","e","=","t","r","u","e">>

\* what may follow the path in a request URL
QuerySuffixes == {<<"?">>, Q_active}

\* the paths that are also requested with a query string
QueriedPaths ==
  {T_users,
   Substitute(T_usersId, [n \in DeclaredNames(T_usersId) |-> V_42]),
   Substitute(T_usersId, [n \in DeclaredNames(T_usersId) |-> <<"A">>]),
   Substitute(T_itemsId, [n \in DeclaredNames(T_itemsId) |-> V_42]),
   Substitute(T_two, [n \in DeclaredNames(T_two) |-> V_word])}

Urls == Paths \cup {p \o q : p \in QueriedPaths, q \in QuerySuffixes}

Q_a1 == <<"a","=","1">>
Q_a2 == <<"a","=","2">>
Q_b2 == <<"b","=","2">>
Q_cEmpty == <<"c","=">>
Q_x == <<"x">>
Q_abc == <<"a","=","b","=","c">>
Q_searchAge == <<"?","s","e","a","r","c","h","=","D","i","e","g","o",
                 "&","a","g","e","=","2","5">>

\* the '&'-separated segments query strings are assembled from
QuerySegments == {Q_a1, Q_a2, Q_b2, Q_cEmpty, Q_x, Q_abc, <<>>}

\* the sequences of at most n elements of S
SeqsUpTo(S, n) == UNION {[1..k -> S] : k \in 0..n}

\* the arguments extractQueryParams is called with: the empty string, the
\* examples of its documentation, and '?' followed by up to MaxSegments
\* segments joined with '&'
QueryInputs ==
  {<<>>, Q_searchAge, Q_active}
    \cup {<<"?">> \o Join(segs, <<"&">>) :
            segs \in SeqsUpTo(QuerySegments, MaxSegments)}

\* ------------------------------------------------------------------------
\* State
\* ------------------------------------------------------------------------

VARIABLES
  phase,        \* "loading": routes.js is being evaluated; "listening":
                \* server.listen was called; "failed": the evaluation threw
  routes,       \* the route table, in declaration order
  loadError,    \* the template whose buildRoutePath threw, or Undefined
  pc,           \* the request callback: "idle", "json" (awaiting the body
                \* middleware) or "done"
  req,          \* the request object: method, url, params, query
  res,          \* the response: status 0 while none was written
  calls,        \* the handlers invoked for the request, in order
  threw,        \* whether the request callback ended in an exception
  query,        \* the argument of a direct call of extractQueryParams
  queryParams,  \* the object that call returned
  qpc           \* "idle", "called" or "returned"

\* a direct use of buildRoutePath: one template is compiled, then strings
\* are matched against the pattern
VARIABLES
  bPath,        \* the argument of buildRoutePath
  bRegex,       \* the pattern it returned
  bUrl,         \* the string last matched against the pattern
  bMatch,       \* the result of that match
  bpc           \* "idle", "built", "failed" (buildRoutePath threw), "matched"

\* the users server of routes.js and its Database
VARIABLES
  chunks,       \* the text of the request body the middleware reads
  reqBody,      \* req.body, as the middleware left it
  listed,       \* the users written as the JSON body of the response
  database,     \* the field #database of the Database object
  dbLoaded      \* whether the readFile of the constructor has settled

\* the items server of documented-parameters.js
VARIABLES
  items,        \* the array items
  iReq,         \* the request: method, url and body text
  iRes,         \* the response: status 0 while none was written
  ipc           \* "idle", "body" (reading the body) or "done"

\* the users server that keeps its users in an array
VARIABLES
  users,        \* the array users
  conns         \* per connection: the request, its position, its response

\* the upload demo: fake-upload-to-http-steam.js posting to
\* stream-http-server.js
VARIABLES
  uIndex,       \* this.index of the client's OndeToHundredStream
  uTimer,       \* the i of the pending setTimeout callback, 0 for none
  uEnded,       \* whether the client's stream pushed null
  wire,         \* the characters of the request body sent and not yet read
  buffers,      \* the array buffers of the server callback
  spc,          \* the server callback: "idle", "reading" or "returned"
  sOut,         \* what the server logged
  response,     \* the response of the server: status 0 while none was written
  cpc,          \* the fetch promise: "fetching", "printed" or "caught"
  cOut          \* what the client logged

\* the pipeline script: readable, sign inversion, multiplication by ten
VARIABLES
  ppc,          \* "start", "running", "finished" or "failed" (it threw)
  pEntry,       \* the class name the last statement instantiates
  pIndex,       \* this.index of the OndeToHundredStream
  pTimer,       \* the i of the pending setTimeout callback, 0 for none
  pEnded,       \* whether the readable pushed null
  srcBuf,       \* the chunks pushed and not yet transformed
  midBuf,       \* the chunks transformed and not yet written
  printed       \* what the script logged

routerVars == <<phase, routes, loadError, pc, req, res, calls, threw>>
decoderVars == <<query, queryParams, qpc>>
patternVars == <<bPath, bRegex, bUrl, bMatch, bpc>>
usersVars == <<chunks, reqBody, listed, database, dbLoaded>>
itemsVars == <<items, iReq, iRes, ipc>>
memoryVars == <<users, conns>>
uploadVars == <<uIndex, uTimer, uEnded, wire, buffers, spc, sOut, response,
                cpc, cOut>>
pipelineVars == <<ppc, pEntry, pIndex, pTimer, pEnded, srcBuf, midBuf,
                  printed>>

streamVars == <<uploadVars, pipelineVars>>

vars == <<routerVars, decoderVars, patternVars, usersVars, itemsVars,
          memoryVars, streamVars>>

\* the variables the server does not touch, and those a direct call of
\* extractQueryParams or of buildRoutePath does not touch
notRouter == <<decoderVars, patternVars, usersVars, itemsVars, memoryVars,
               streamVars>>
notDecoder == <<routerVars, patternVars, usersVars, itemsVars, memoryVars,
                streamVars>>
notPattern == <<routerVars, decoderVars, usersVars, itemsVars, memoryVars,
                streamVars>>

\* the variables the users server of routes.js does not touch, and those
\* the items server and the array-backed users server do not touch
notUsers == <<decoderVars, patternVars, itemsVars, memoryVars, streamVars>>
notItems == <<routerVars, decoderVars, patternVars, usersVars, memoryVars,
              streamVars>>
notMemory == <<routerVars, decoderVars, patternVars, usersVars, itemsVars,
               streamVars>>

\* the variables the upload demo does not touch, and those the pipeline
\* script does not touch
notUpload == <<routerVars, decoderVars, patternVars, usersVars, itemsVars,
               memoryVars, pipelineVars>>
notPipeline == <<routerVars, decoderVars, patternVars, usersVars, itemsVars,
                 memoryVars, uploadVars>>

NoRequest == [method |-> "", url |-> <<>>, params |-> Undefined,
              query |-> Undefined]

NoResponse == [status |-> 0, body |-> "", handler |-> 0]

RouterInit ==
  /\ phase = "loading"
  /\ routes = <<>>
  /\ loadError = Undefined
  /\ pc = "idle"
  /\ req = NoRequest
  /\ res = NoResponse
  /\ calls = <<>>
  /\ threw = FALSE

DecoderInit ==
  /\ query = <<>>
  /\ queryParams = EmptyObject
  /\ qpc = "idle"

PatternInit ==
  /\ bPath = <<>>
  /\ bRegex = [error |-> FALSE, nodes |-> <<>>]
  /\ bUrl = <<>>
  /\ bMatch = NoMatch
  /\ bpc = "idle"

\* a request body text is JSON text of an object with the members name and
\* email that are not Undefined, or (json false) text JSON.parse rejects
NotJson == [json |-> FALSE, name |-> Undefined, email |-> Undefined]

\* a parsed body: null, or an object whose absent members read undefined
NullBody == [isNull |-> TRUE, name |-> Undefined, email |-> Undefined]

\* #database = {}: no table users yet
EmptyDatabase == [hasUsers |-> FALSE, users |-> <<>>]

UsersInit ==
  /\ chunks = NotJson
  /\ reqBody = NullBody
  /\ listed = <<>>
  /\ database = EmptyDatabase
  /\ dbLoaded = FALSE

ItemsNotJson == [json |-> FALSE, name |-> Undefined, value |-> Undefined]

NoItemsRequest == [method |-> "", url |-> <<>>, text |-> ItemsNotJson]

NoItemsResponse == [status |-> 0, text |-> "", payload |-> <<>>]

ItemsInit ==
  /\ items = <<>>
  /\ iReq = NoItemsRequest
  /\ iRes = NoItemsResponse
  /\ ipc = "idle"

MaxConns == 2

Conns == 1..MaxConns

IdleConn == [pc |-> "idle", method |-> "", url |-> <<>>, text |-> NotJson,
             status |-> 0, text_out |-> ""]

MemoryInit ==
  /\ users = <<>>
  /\ conns = [c \in Conns |-> IdleConn]

NoUploadResponse == [status |-> 0, body |-> <<>>]

UploadInit ==
  /\ uIndex = 1
  /\ uTimer = 0
  /\ uEnded = FALSE
  /\ wire = <<>>
  /\ buffers = <<>>
  /\ spc = "idle"
  /\ sOut = <<>>
  /\ response = NoUploadResponse
  /\ cpc = "fetching"
  /\ cOut = <<>>

PipelineInit ==
  /\ ppc = "start"
  /\ pEntry = ""
  /\ pIndex = 1
  /\ pTimer = 0
  /\ pEnded = FALSE
  /\ srcBuf = <<>>
  /\ midBuf = <<>>
  /\ printed = <<>>

Init ==
  /\ RouterInit /\ DecoderInit /\ PatternInit
  /\ UsersInit /\ ItemsInit /\ MemoryInit
  /\ UploadInit /\ PipelineInit

\* ------------------------------------------------------------------------
\* Start-up: the array literal of routes.js, then server.listen
\* ------------------------------------------------------------------------

\* One element { method, path: buildRoutePath(template), handler } of the
\* array literal is evaluated.  When buildRoutePath throws, the evaluation of
\* the module ends: the table is never bound and the server never listens.
\* The field template is the argument the pattern was built from; handler
\* identifies the handler function by the position of its declaration.
RegisterRoute(method, template) ==
  /\ phase = "loading"
  /\ Len(routes) < MaxRoutes
  /\ LET path == buildRoutePath(template) IN
       IF path.error
         THEN /\ phase' = "failed"
              /\ routes' = <<>>
              /\ loadError' = template
         ELSE /\ routes' = Append(routes,
                             [method |-> method, template |-> template,
                              path |-> path, handler |-> Len(routes) + 1])
              /\ UNCHANGED <<phase, loadError>>
  /\ UNCHANGED <<pc, req, res, calls, threw>>
  /\ UNCHANGED notRouter

\* server.listen(3333): runs after routes.js was evaluated without error
Listen ==
  /\ phase = "loading"
  /\ phase' = "listening"
  /\ UNCHANGED <<routes, loadError, pc, req, res, calls, threw>>
  /\ UNCHANGED notRouter

\* ------------------------------------------------------------------------
\* The request callback
\* ------------------------------------------------------------------------

\* A request arrives: the callback reads method and url and awaits json()
Request(method, url) ==
  /\ phase = "listening"
  /\ pc \in {"idle", "done"}
  /\ pc' = "json"
  /\ req' = [method |-> method, url |-> url, params |-> Undefined,
             query |-> Undefined]
  /\ res' = NoResponse
  /\ calls' = <<>>
  /\ threw' = FALSE
  /\ UNCHANGED <<phase, routes, loadError>>
  /\ UNCHANGED notRouter

\* routes.find(r => r.method === method && r.path.test(url)), from index i:
\* the index of the first entry that satisfies the predicate, 0 for none
RECURSIVE FindFrom(_, _, _, _)
FindFrom(table, i, method, url) ==
  IF i > Len(table) THEN 0
  ELSE IF table[i].method = method /\ RegExpTest(table[i].path, url) THEN i
  ELSE FindFrom(table, i + 1, method, url)

\* mutation of Find: the last entry that satisfies the predicate
RECURSIVE FindLastFrom(_, _, _, _)
FindLastFrom(table, i, method, url) ==
  IF i < 1 THEN 0
  ELSE IF table[i].method = method /\ RegExpTest(table[i].path, url) THEN i
  ELSE FindLastFrom(table, i - 1, method, url)

Find_last(table, method, url) == FindLastFrom(table, Len(table), method, url)

\* mutation of Find: the method of the entry is not compared
RECURSIVE FindAnyMethodFrom(_, _, _)
FindAnyMethodFrom(table, i, url) ==
  IF i > Len(table) THEN 0
  ELSE IF RegExpTest(table[i].path, url) THEN i
  ELSE FindAnyMethodFrom(table, i + 1, url)

Find_anyMethod(table, method, url) == FindAnyMethodFrom(table, 1, url)

Find(table, method, url) == FindFrom(table, 1, method, url)

\* mutation of RestParams: the group "query" is left among the params
RestParams_keepQuery(groups) == groups

\* const { query, ...params } = routeParams.groups: the groups but "query"
RestParams(groups) == [n \in DOMAIN groups \ {QueryName} |-> groups[n]]

\* the truthiness of a captured group: undefined and '' are falsy
Truthy(v) == v # Undefined /\ v # <<>>

\* req.query = query ? extractQueryParams(query) : {}
DecodeQuery(q) == IF Truthy(q) THEN extractQueryParams(q) ELSE EmptyObject

\* The rest of the callback, after json() resolved: find the route, extract
\* params and query, call the handler; or answer 404.  Reading .groups of a
\* null match result throws a TypeError.
Dispatch ==
  /\ phase = "listening"
  /\ pc = "json"
  /\ pc' = "done"
  /\ LET route == Find(routes, req.method, req.url) IN
       IF route # 0
         THEN LET routeParams == RegExpMatch(routes[route].path, req.url) IN
              IF ~routeParams.matched
                THEN /\ threw' = TRUE
                     /\ UNCHANGED <<req, res, calls>>
                ELSE /\ req' = [req EXCEPT
                                  !.params = RestParams(routeParams.groups),
                                  !.query =
                                    DecodeQuery(routeParams.groups[QueryName])]
                     /\ calls' = Append(calls, routes[route].handler)
                     /\ res' = [status |-> 200, body |-> "handler",
                                handler |-> routes[route].handler]
                     /\ UNCHANGED threw
         ELSE /\ res' = [status |-> 404, body |-> "Not Found", handler |-> 0]
              /\ UNCHANGED <<req, calls, threw>>
  /\ UNCHANGED <<phase, routes, loadError>>
  /\ UNCHANGED notRouter

Next ==
  \/ \E m \in RouteMethods, t \in Templates : RegisterRoute(m, t)
  \/ Listen
  \/ \E m \in RequestMethods, u \in Urls : Request(m, u)
  \/ Dispatch

Spec == Init /\ [][Next]_vars

\* ------------------------------------------------------------------------
\* Direct calls of extractQueryParams
\* ------------------------------------------------------------------------

CallExtract(q) ==
  /\ qpc \in {"idle", "returned"}
  /\ qpc' = "called"
  /\ query' = q
  /\ queryParams' = EmptyObject
  /\ UNCHANGED notDecoder

ReturnExtract ==
  /\ qpc = "called"
  /\ qpc' = "returned"
  /\ queryParams' = extractQueryParams(query)
  /\ UNCHANGED query
  /\ UNCHANGED notDecoder

NextDecoder ==
  \/ \E q \in QueryInputs : CallExtract(q)
  \/ ReturnExtract

SpecDecoder == Init /\ [][NextDecoder]_vars

\* ------------------------------------------------------------------------
\* Vocabulary of the properties
\* ------------------------------------------------------------------------

\* the part of a URL before its first '?', and the part from it on
UrlPath(u) ==
  LET k == IndexFrom(u, "?", 1) IN IF k = 0 THEN u ELSE SubSeq(u, 1, k - 1)

UrlQuery(u) ==
  LET k == IndexFrom(u, "?", 1) IN IF k = 0 THEN <<>> ELSE SubSeq(u, k, Len(u))

\* the pieces of template t that declare a parameter
ParamPieces(t) ==
  LET ps == Pieces(t) IN {k \in 1..Len(ps) : IsParamPiece(ps[k])}

\* every parameter of t is ':' followed by letters up to the next '/', and
\* no two parameters of t have the same name
DistinctNamedSegments(t) ==
  /\ \A n \in DeclaredNames(t) :
       n # <<>> /\ \A k \in 1..Len(n) : n[k] \in Letters
  /\ Cardinality(ParamPieces(t)) = Cardinality(DeclaredNames(t))

\* t declares some parameter name more than once
DeclaresTwice(t) == Cardinality(ParamPieces(t)) > Cardinality(DeclaredNames(t))

\* the entries of the table whose method and pattern fit the request
Matching ==
  {i \in 1..Len(routes) :
     routes[i].method = req.method /\ RegExpTest(routes[i].path, req.url)}

\* the path obtained from t when the parameters given the empty value are
\* left out together with their '/'
RECURSIVE KeepFrom(_, _, _)
KeepFrom(ps, i, sigma) ==
  IF i > Len(ps) THEN <<>>
  ELSE IF IsParamPiece(ps[i])
    THEN (IF sigma[ParamName(ps[i])] = <<>> THEN <<>>
          ELSE <<sigma[ParamName(ps[i])]>>) \o KeepFrom(ps, i + 1, sigma)
    ELSE <<ps[i]>> \o KeepFrom(ps, i + 1, sigma)

SubstituteOmit(t, sigma) == Join(KeepFrom(Pieces(t), 1, sigma), <<"/">>)

\* the substitutions that leave a parameter empty or write a character
\* outside lowercase letters, digits, hyphen and underscore
BadSubstitutions(t) ==
  {sigma \in [DeclaredNames(t) -> Values] :
     \E n \in DeclaredNames(t) : sigma[n] \in BadValues}

\* sigma writes a good value at every parameter it does not leave out (a
\* value with a '/' next to a parameter left out with its '/' would read as
\* a path with every segment present)
OnlyOmits(t, sigma) ==
  \A n \in DeclaredNames(t) : sigma[n] \in GoodValues \cup {<<>>}

\* ------------------------------------------------------------------------
\* Properties
\* ------------------------------------------------------------------------

\* C1: when the URL of a dispatched request is a template of the table with a
\* non-empty string over lowercase letters, digits, hyphen and underscore
\* written at each of its N distinct named segments, and the method is that
\* route's, exactly one handler is invoked, that of this route or of one
\* declared before it, and when it is this route's, req.params has exactly
\* the N declared names as keys, each mapped to the string written there.
C1_ParamsAreTheSubstitution ==
  pc = "done" =>
    \A i \in 1..Len(routes) :
      LET t == routes[i].template IN
      (routes[i].method = req.method /\ DistinctNamedSegments(t)) =>
        \A sigma \in [DeclaredNames(t) -> GoodValues] :
          req.url = Substitute(t, sigma) =>
            /\ ~threw
            /\ Len(calls) = 1
            /\ calls[1] <= i
            /\ (\A j \in 1..(i - 1) : j \notin Matching) => calls[1] = i
            /\ calls[1] = i =>
                 /\ DOMAIN req.params = DeclaredNames(t)
                 /\ req.params = sigma

\* C1 witness: GET-or-POST /42/a-_ was dispatched to a first route /:a/:b
\* and req.params holds the two values
C1_Witness ==
  /\ pc = "done"
  /\ Len(routes) >= 1
  /\ routes[1].template = T_two
  /\ routes[1].method = req.method
  /\ req.url = V_two
  /\ calls = <<1>>
  /\ Cardinality(DOMAIN req.params) = 2
  /\ req.params[<<"a">>] = V_42
  /\ req.params[<<"b">>] = V_word

\* C2: when several entries of the table fit the request, exactly one
\* handler is invoked and it is the handler of the first of them.
C2_FirstRegisteredWins ==
  pc = "done" =>
    (Matching # {} =>
       /\ Len(calls) = 1
       /\ calls[1] \in {routes[i].handler : i \in Matching}
       /\ \A i \in Matching : calls[1] <= routes[i].handler
       /\ res.handler = calls[1])

\* C2 witness: the catch-all /:x is declared before /users with the same
\* method, GET /users fits both and the catch-all's handler ran
C2_Witness ==
  /\ pc = "done"
  /\ Len(routes) = 2
  /\ routes[1].template = T_any
  /\ routes[2].template = T_users
  /\ req.url = T_users
  /\ Matching = {1, 2}
  /\ calls = <<1>>

\* C3: a URL whose path leaves out a parameter of a template of the table
\* (with or without its '/'), or writes at a parameter a value with a
\* character outside lowercase letters, digits, hyphen and underscore, is not
\* matched by the pattern of that template, and its handler is not invoked.
C3_BadSegmentNoMatch ==
  pc = "done" =>
    \A i \in 1..Len(routes) :
      LET t == routes[i].template IN
      \A sigma \in BadSubstitutions(t) :
        (\/ UrlPath(req.url) = Substitute(t, sigma)
         \/ /\ OnlyOmits(t, sigma)
            /\ UrlPath(req.url) = SubstituteOmit(t, sigma)) =>
          /\ ~RegExpTest(routes[i].path, req.url)
          /\ calls # <<routes[i].handler>>
          /\ (Len(routes) = 1 => res.status = 404)

\* C3 witness: /users/A was dispatched against the only route /users/:id
\* and was answered 404
C3_Witness ==
  /\ pc = "done"
  /\ Len(routes) = 1
  /\ routes[1].template = T_usersId
  /\ routes[1].method = req.method
  /\ req.url = T_users \o <<"/", "A">>
  /\ calls = <<>>
  /\ res.status = 404

\* C4: when no entry of the table has both the request's method and a
\* pattern that matches the URL, the answer is 404 "Not Found", no handler
\* is invoked and the callback does not throw.
C4_NoMatchIs404 ==
  pc = "done" =>
    (Matching = {} =>
       /\ res.status = 404
       /\ res.body = "Not Found"
       /\ calls = <<>>
       /\ ~threw)

\* C4 witness: POST /users against a table whose only route is GET /users
C4_Witness ==
  /\ pc = "done"
  /\ Len(routes) = 1
  /\ routes[1].template = T_users
  /\ routes[1].method = "GET"
  /\ req.method = "POST"
  /\ req.url = T_users
  /\ res.status = 404
  /\ calls = <<>>

\* C5: a request whose URL is a path followed by '?' and a query string is
\* dispatched to the route the path alone is dispatched to, with the route
\* parameters the path alone gives, and req.query is the decoding of the
\* suffix; GET /items/42 and GET /items/42?active=true on the route
\* GET /items/:id both give params {id: '42'}, the second with query
\* {active: 'true'}, the first with an empty query.
C5_QuerySuffixKeepsRouteAndParams ==
  pc = "done" =>
    /\ LET p == UrlPath(req.url)
           q == UrlQuery(req.url)
           base == Find(routes, req.method, p)
       IN  (q # <<>> /\ base # 0) =>
             /\ calls = <<routes[base].handler>>
             /\ req.params = RestParams(RegExpMatch(routes[base].path, p).groups)
             /\ req.query = extractQueryParams(q)
    /\ (/\ Len(routes) >= 1
        /\ routes[1].template = T_itemsId
        /\ routes[1].method = req.method
        /\ UrlPath(req.url) = U_items42) =>
          /\ calls = <<1>>
          /\ req.params = [n \in {<<"i","d">>} |-> V_42]
          /\ (req.url = U_items42 => DOMAIN req.query = {})
          /\ (req.url = U_items42 \o Q_active =>
                req.query = [n \in {<<"a","c","t","i","v","e">>} |->
                               <<"t","r","u","e">>])

\* C5 witness: GET /items/42?active=true was dispatched to GET /items/:id
C5_Witness ==
  /\ pc = "done"
  /\ Len(routes) >= 1
  /\ routes[1].template = T_itemsId
  /\ routes[1].method = "GET"
  /\ req.method = "GET"
  /\ req.url = U_items42 \o Q_active
  /\ calls = <<1>>
  /\ req.params[<<"i","d">>] = V_42
  /\ req.query[<<"a","c","t","i","v","e">>] = <<"t","r","u","e">>

\* C6: extractQueryParams('') and extractQueryParams('?') return an object
\* with no keys.
C6_EmptyQueryDecodesToEmpty ==
  (qpc = "returned" /\ query \in {<<>>, <<"?">>}) => DOMAIN queryParams = {}

\* the (key, value) pairs of the query strings of C7
Pairs ==
  {[k |-> <<"a">>, v |-> <<"1">>], [k |-> <<"a">>, v |-> <<"2">>],
   [k |-> <<"b">>, v |-> <<"2">>], [k |-> <<"c">>, v |-> <<>>]}

PairLists == UNION {[1..n -> Pairs] : n \in 1..MaxSegments}

DistinctKeys(l) == \A i, j \in 1..Len(l) : i # j => l[i].k # l[j].k

\* '?k1=v1&...&kn=vn'
RenderPairs(l) ==
  <<"?">> \o Join([i \in 1..Len(l) |-> l[i].k \o <<"=">> \o l[i].v], <<"&">>)

\* the mapping with exactly the keys of l, each mapped to its value
MapOf(l) ==
  [key \in {l[i].k : i \in 1..Len(l)} |->
     l[CHOOSE i \in 1..Len(l) : l[i].k = key].v]

\* C7: for '?k1=v1&...&kn=vn' with pairwise distinct keys and values without
\* '&' and '=', extractQueryParams returns the mapping with exactly the keys
\* k1..kn, each mapped to its value; '?search=Diego&age=25' gives
\* {search: 'Diego', age: '25'}.
C7_DistinctKeysDecoded ==
  qpc = "returned" =>
    /\ \A l \in PairLists :
         (DistinctKeys(l) /\ query = RenderPairs(l)) => queryParams = MapOf(l)
    /\ query = Q_searchAge =>
         /\ DOMAIN queryParams = {<<"s","e","a","r","c","h">>, <<"a","g","e">>}
         /\ queryParams[<<"s","e","a","r","c","h">>] = <<"D","i","e","g","o">>
         /\ queryParams[<<"a","g","e">>] = <<"2","5">>

\* C7 witness: '?a=1&b=2' was decoded to {a: '1', b: '2'}
C7_Witness ==
  /\ qpc = "returned"
  /\ query = <<"?">> \o Q_a1 \o <<"&">> \o Q_b2
  /\ DOMAIN queryParams = {<<"a">>, <<"b">>}
  /\ queryParams[<<"a">>] = <<"1">>
  /\ queryParams[<<"b">>] = <<"2">>

\* the '&'-separated segments of a query string, the key of a segment (the
\* text before its first '=') and the text after its first '='
SegmentsOf(q) == Split(SubSeq(q, 2, Len(q)), "&")

KeyOf(seg) ==
  LET e == IndexFrom(seg, "=", 1) IN
  IF e = 0 THEN seg ELSE SubSeq(seg, 1, e - 1)

AfterFirstEquals(seg) ==
  LET e == IndexFrom(seg, "=", 1) IN SubSeq(seg, e + 1, Len(seg))

EqualsCount(seg) == Cardinality({k \in 1..Len(seg) : seg[k] = "="})

\* segment i is the last segment with its key
LastWithKey(segs, i) ==
  \A j \in (i + 1)..Len(segs) : KeyOf(segs[j]) # KeyOf(segs[i])

\* C8: the value of a key is everything after the first '=' of its segment,
\* further '=' characters included ('?a=b=c' maps a to 'b=c').
C8_SplitOnFirstEquals ==
  qpc = "returned" =>
    LET segs == SegmentsOf(query) IN
    \A i \in 1..Len(segs) :
      (EqualsCount(segs[i]) >= 1 /\ LastWithKey(segs, i)) =>
        /\ KeyOf(segs[i]) \in DOMAIN queryParams
        /\ queryParams[KeyOf(segs[i])] = AfterFirstEquals(segs[i])

\* C9: no entry of the route table is built from a template that declares a
\* parameter name twice: buildRoutePath throws for such a template while the
\* table is declared, after which the server never listens and no request is
\* dispatched; and no request callback ends in an exception.
C9_DuplicateNameRejectedAtRegistration ==
  /\ \A i \in 1..Len(routes) :
       /\ ~DeclaresTwice(routes[i].template)
       /\ \A a, b \in DOMAIN GroupNames(routes[i].path.nodes) :
            a # b => GroupNames(routes[i].path.nodes)[a]
                       # GroupNames(routes[i].path.nodes)[b]
  /\ (loadError # Undefined => phase = "failed")
  /\ (phase = "failed" => (routes = <<>> /\ pc = "idle" /\ req = NoRequest))
  /\ ~threw

\* C9 witness: declaring a route with /a/:id/b/:id failed the start-up
C9_Witness ==
  /\ phase = "failed"
  /\ loadError = T_dupId
  /\ DeclaresTwice(loadError)
  /\ routes = <<>>

\* C10: a segment without '=' puts its text in the result as a key whose
\* value is undefined, every segment of the query string contributes its
\* key, and a segment with one '=' maps its key to the text after the '=';
\* '?x' gives {x: undefined} and '?a=1&x&b=2' gives
\* {a: '1', x: undefined, b: '2'}.
C10_MissingEqualsGivesUndefined ==
  (qpc = "returned" /\ query # <<>>) =>
    LET segs == SegmentsOf(query) IN
    /\ \A i \in 1..Len(segs) :
         /\ KeyOf(segs[i]) \in DOMAIN queryParams
         /\ (EqualsCount(segs[i]) = 0 /\ LastWithKey(segs, i)) =>
              queryParams[segs[i]] = Undefined
         /\ (EqualsCount(segs[i]) = 1 /\ LastWithKey(segs, i)) =>
              queryParams[KeyOf(segs[i])] = AfterFirstEquals(segs[i])
    /\ query = <<"?">> \o Q_x =>
         queryParams = [k \in {Q_x} |-> Undefined]
    /\ query = <<"?">> \o Q_a1 \o <<"&">> \o Q_x \o <<"&">> \o Q_b2 =>
         /\ DOMAIN queryParams = {<<"a">>, <<"x">>, <<"b">>}
         /\ queryParams[<<"a">>] = <<"1">>
         /\ queryParams[<<"x">>] = Undefined
         /\ queryParams[<<"b">>] = <<"2">>

\* C10 witness: '?a=1&x&b=2' was decoded, x is a key with value undefined
\* and a and b have their values
C10_Witness ==
  /\ qpc = "returned"
  /\ query = <<"?">> \o Q_a1 \o <<"&">> \o Q_x \o <<"&">> \o Q_b2
  /\ <<"x">> \in DOMAIN queryParams
  /\ queryParams[<<"x">>] = Undefined
  /\ queryParams[<<"a">>] = <<"1">>
  /\ queryParams[<<"b">>] = <<"2">>

\* C11: when a key occurs in several segments, the result holds the key once
\* and maps it to the value of its last occurrence (the value that segment
\* gives when it is decoded alone); '?a=1&a=2' gives {a: '2'}.
C11_LastDuplicateWins ==
  (qpc = "returned" /\ query # <<>>) =>
    LET segs == SegmentsOf(query) IN
    /\ DOMAIN queryParams = {KeyOf(segs[i]) : i \in 1..Len(segs)}
    /\ \A i \in 1..Len(segs) :
         LastWithKey(segs, i) =>
           queryParams[KeyOf(segs[i])]
             = extractQueryParams(<<"?">> \o segs[i])[KeyOf(segs[i])]
    /\ query = <<"?">> \o Q_a1 \o <<"&">> \o Q_a2 =>
         queryParams = [k \in {<<"a">>} |-> <<"2">>]

\* C11 witness: '?a=1&a=2' was decoded to the single key a with value '2'
C11_Witness ==
  /\ qpc = "returned"
  /\ query = <<"?">> \o Q_a1 \o <<"&">> \o Q_a2
  /\ DOMAIN queryParams = {<<"a">>}
  /\ queryParams[<<"a">>] = <<"2">>

\* ------------------------------------------------------------------------
\* Direct use of buildRoutePath
\* ------------------------------------------------------------------------

T_userUnderscore == <<"/",":","u","s","e","r","_","i","d">>
T_mixedName == <<"/",":","I","d">>
T_dot == <<"/","a",".","b">>
T_upper == <<"/","U","s","e","r","s">>

\* the templates compiled directly: those of the route tables, a parameter
\* followed by '_' and letters, a parameter name with an uppercase letter, and
\* templates without parameters that hold a '.' or an uppercase letter
PatternTemplates ==
  Templates \cup {T_userUnderscore, T_mixedName, T_dot, T_upper}

\* the strings matched directly: the request URLs of the server, and paths
\* that differ from a template in one character or in case
PatternUrls ==
  Urls \cup {T_upper, T_upper \o <<"/","4","2">>, T_dot,
             <<"/","a","x","b">>, <<"/","a","/","b","?">>,
             <<"/","4","2","_","i","d">>, <<"/","4","2","_","i","d","?">>,
             <<"/","u","s","e","r","s","x">>, <<"x","/","u","s","e","r","s">>,
             <<"/","u","s","e","r">>}

\* const pathRegex = buildRoutePath(path)
Build(t) ==
  /\ bpc = "idle"
  /\ bPath' = t
  /\ bRegex' = buildRoutePath(t)
  /\ bpc' = IF bRegex'.error THEN "failed" ELSE "built"
  /\ UNCHANGED <<bUrl, bMatch>>
  /\ UNCHANGED notPattern

\* str.match(pathRegex)
MatchUrl(u) ==
  /\ bpc \in {"built", "matched"}
  /\ bUrl' = u
  /\ bMatch' = RegExpMatch(bRegex, u)
  /\ bpc' = "matched"
  /\ UNCHANGED <<bPath, bRegex>>
  /\ UNCHANGED notPattern

NextPattern ==
  \/ \E t \in PatternTemplates : Build(t)
  \/ \E u \in PatternUrls : MatchUrl(u)

SpecPattern == Init /\ [][NextPattern]_vars

\* the names that follow a ':' in template t, a name being the longest run
\* of letters after the ':'
LetterNames(t) ==
  {n \in {SubSeq(t, a, b) : a \in 1..Len(t), b \in 1..Len(t)} :
     /\ n # <<>>
     /\ \A k \in 1..Len(n) : n[k] \in Letters
     /\ \E a \in 2..Len(t) :
          /\ t[a - 1] = ":"
          /\ a + Len(n) - 1 <= Len(t)
          /\ SubSeq(t, a, a + Len(n) - 1) = n
          /\ (a + Len(n) - 1 = Len(t) \/ t[a + Len(n)] \notin Letters)}

\* the parameter names a match delivers
DeliveredNames == DOMAIN RestParams(bMatch.groups)

\* the string differs from s in the case of some letter only
DiffersInCaseOnly(u, s) == u # s /\ ToLowerCase(u) = ToLowerCase(s)

\* literal parts are matched case-sensitively: a path that differs only in
\* the case of a letter from the template with good values at its parameters
\* is not matched
CaseSensitive ==
  (bpc = "matched" /\ DistinctNamedSegments(bPath)) =>
    \A sigma \in [DeclaredNames(bPath) -> GoodValues] :
      DiffersInCaseOnly(UrlPath(bUrl), Substitute(bPath, sigma)) =>
        ~bMatch.matched

\* C12 as stated: the names delivered on a match are the names declared after
\* ':' in the template, each taken in full up to the next '/' or the end of
\* the template, and literal parts are matched case-sensitively.
C12_NamesTakenInFull ==
  /\ (bpc = "matched" /\ bMatch.matched) =>
       DeliveredNames = DeclaredNames(bPath)
  /\ CaseSensitive

\* C12 amended: the names delivered on a match are the names declared after
\* ':' in the template, a name being the longest run of letters (a-z, A-Z)
\* that follows the ':' (what follows the run up to the next '/' is literal
\* text of the pattern), and literal parts are matched case-sensitively.
C12_NamesAreLetterRuns ==
  /\ (bpc = "matched" /\ bMatch.matched) =>
       DeliveredNames = LetterNames(bPath)
  /\ CaseSensitive

\* C12 witness: /42_id was matched by the pattern of /:user_id and the
\* parameter delivered is user
C12_Witness ==
  /\ bpc = "matched"
  /\ bPath = T_userUnderscore
  /\ bUrl = <<"/","4","2","_","i","d">>
  /\ bMatch.matched
  /\ DeliveredNames = {<<"u","s","e","r">>}
  /\ bMatch.groups[<<"u","s","e","r">>] = V_42

\* C13: a template without parameters matches a URL exactly when the part of
\* the URL before its '?' is the template, character for character.
C13_LiteralTemplateMatchesExactly ==
  (bpc = "matched" /\ IndexFrom(bPath, ":", 1) = 0) =>
    (bMatch.matched <=> UrlPath(bUrl) = bPath)

\* ------------------------------------------------------------------------
\* The users server: routes.js, the json middleware and Database
\* ------------------------------------------------------------------------

\* the most rows the table users holds
MaxUsers == 2

\* the identifiers randomUUID returns, cut to two characters
UuidHeads == <<"a","b","c","d","e","f">>

Uuid(k) == <<UuidHeads[k], "1">>

Uuids == {Uuid(k) : k \in 1..MaxUsers}

\* member values of a body: two names, a JSON number, one e-mail
N_Jo == <<"J","o">>
N_an == <<"a","n">>
N_number == <<"number:7">>
E_jx == <<"j","@","x">>

\* typeof v === "string"
IsString(v) == v # Undefined /\ v # N_number

JsonObject(n, e) == [json |-> TRUE, name |-> n, email |-> e]

UsersBodies ==
  {NotJson, JsonObject(Undefined, Undefined), JsonObject(N_an, Undefined),
   JsonObject(Undefined, E_jx), JsonObject(N_an, E_jx),
   JsonObject(N_Jo, E_jx), JsonObject(<<>>, E_jx),
   JsonObject(N_number, E_jx)}

PutBodies ==
  {NotJson, JsonObject(N_an, Undefined), JsonObject(Undefined, E_jx),
   JsonObject(N_an, E_jx)}

K_search == <<"s","e","a","r","c","h">>
K_id == <<"i","d">>

SearchUrl(s) == T_users \o <<"?">> \o K_search \o <<"=">> \o s

UserUrl(id) == T_users \o <<"/">> \o id

S_jo == <<"j","o">>
S_X == <<"X">>
S_eq == <<"j","=","o">>

Searches == {<<>>, S_jo, S_X, S_eq}

UsersRequests ==
  {[method |-> "GET", url |-> u, text |-> NotJson] :
     u \in {T_users, UserUrl(Uuid(1))} \cup {SearchUrl(s) : s \in Searches}}
  \cup {[method |-> "POST", url |-> T_users, text |-> b] : b \in UsersBodies}
  \cup {[method |-> "POST", url |-> UserUrl(Uuid(1)),
         text |-> JsonObject(N_an, E_jx)]}
  \cup {[method |-> "PUT", url |-> UserUrl(id), text |-> b] :
          id \in Uuids, b \in PutBodies}
  \cup {[method |-> "DELETE", url |-> u, text |-> NotJson] :
          u \in {T_users} \cup {UserUrl(id) : id \in Uuids}}

\* what db.json holds when the constructor reads it
FileContents ==
  {[hasUsers |-> TRUE, users |-> <<>>],
   [hasUsers |-> TRUE,
    users |-> <<[id |-> Uuid(1), name |-> N_Jo, email |-> E_jx]>>]}

\* json(): req.body = JSON.parse(text), or null when the parse throws
Json(text) ==
  IF text.json
    THEN [isNull |-> FALSE, name |-> text.name, email |-> text.email]
    ELSE NullBody

\* this.#database[table] ?? []
Table(db) == IF db.hasUsers THEN db.users ELSE <<>>

\* s.includes(sub)
Includes(s, sub) ==
  \E i \in 0..(Len(s) - Len(sub)) : SubSeq(s, i + 1, i + Len(sub)) = sub

\* row[key]?.toLowerCase().includes(value.toLowerCase()): short-circuits to
\* undefined on an undefined member, throws a TypeError on a member that is
\* not a string
FieldTest(field, value) ==
  IF field = Undefined THEN "false"
  ELSE IF ~IsString(field) THEN "throw"
  ELSE IF Includes(ToLowerCase(field), ToLowerCase(value)) THEN "true"
  ELSE "false"

\* Object.entries(search).some(...): name first, email when name fails
RowTest(row, search) ==
  LET n == FieldTest(row.name, search.name) IN
  IF n # "false" THEN n ELSE FieldTest(row.email, search.email)

\* search ? { name: search, email: search } : null
NoSearch == [isNull |-> TRUE, name |-> Undefined, email |-> Undefined]

SearchObject(search) ==
  IF Truthy(search)
    THEN [isNull |-> FALSE, name |-> search, email |-> search]
    ELSE NoSearch

\* select(table, search)
Select(db, search) ==
  IF search.isNull THEN [threw |-> FALSE, rows |-> Table(db)]
  ELSE IF \E k \in 1..Len(Table(db)) : RowTest(Table(db)[k], search) = "throw"
    THEN [threw |-> TRUE, rows |-> <<>>]
  ELSE [threw |-> FALSE,
        rows |-> SelectSeq(Table(db),
                           LAMBDA row : RowTest(row, search) = "true")]

\* insert(table, data)
Insert(db, data) ==
  IF db.hasUsers
    THEN [db EXCEPT !.users = Append(db.users, data)]
    ELSE [hasUsers |-> TRUE, users |-> <<data>>]

\* findIndex(row => row.id === id), counted from 1; 0 for none
RECURSIVE FindIndexFrom(_, _, _)
FindIndexFrom(rows, i, id) ==
  IF i > Len(rows) THEN 0
  ELSE IF rows[i].id = id THEN i
  ELSE FindIndexFrom(rows, i + 1, id)

FindIndex(rows, id) == FindIndexFrom(rows, 1, id)

\* update(table, id, data): the row becomes { id, ...data }
Update(db, id, data) ==
  IF ~db.hasUsers THEN db
  ELSE LET rowIndex == FindIndex(db.users, id) IN
       IF rowIndex > 0
         THEN [db EXCEPT !.users[rowIndex] =
                 [id |-> id, name |-> data.name, email |-> data.email]]
         ELSE db

\* delete(table, id): splice(rowIndex, 1)
Delete(db, id) ==
  IF ~db.hasUsers THEN db
  ELSE LET rowIndex == FindIndex(db.users, id) IN
       IF rowIndex > 0
         THEN [db EXCEPT !.users =
                 SubSeq(db.users, 1, rowIndex - 1)
                   \o SubSeq(db.users, rowIndex + 1, Len(db.users))]
         ELSE db

\* what a handler did: the response it wrote and the database it left, or
\* the exception it ended in
Answered(status, body, rows, db) ==
  [threw |-> FALSE, status |-> status, body |-> body, listed |-> rows,
   db |-> db]

Thrown(db) ==
  [threw |-> TRUE, status |-> 0, body |-> "", listed |-> <<>>, db |-> db]

\* GET /users
GetUsers(request, body, db, uuid) ==
  LET search == IF request.query # EmptyObject
                     /\ K_search \in DOMAIN request.query
                   THEN request.query[K_search] ELSE Undefined
      result == Select(db, SearchObject(search))
  IN  IF result.threw THEN Thrown(db)
      ELSE Answered(200, "users", result.rows, db)

\* mutation of PostUsers: the e-mail is not validated
PostUsers_noEmailCheck(request, body, db, uuid) ==
  IF body.isNull \/ ~Truthy(body.name)
    THEN Answered(400, "Bad Request: Missing name or email", <<>>, db)
    ELSE Answered(201, "User created successfully", <<>>,
                  Insert(db, [id |-> uuid, name |-> body.name,
                              email |-> body.email]))

\* POST /users
PostUsers(request, body, db, uuid) ==
  IF body.isNull \/ ~Truthy(body.name) \/ ~Truthy(body.email)
    THEN Answered(400, "Bad Request: Missing name or email", <<>>, db)
    ELSE Answered(201, "User created successfully", <<>>,
                  Insert(db, [id |-> uuid, name |-> body.name,
                              email |-> body.email]))

\* PUT /users/:id: destructuring a null body throws a TypeError
PutUser(request, body, db, uuid) ==
  IF body.isNull THEN Thrown(db)
  ELSE Answered(204, "Data updated successfully", <<>>,
                Update(db, request.params[K_id], body))

\* DELETE /users/:id
DeleteUser(request, body, db, uuid) ==
  Answered(204, "User deleted successfully", <<>>,
           Delete(db, request.params[K_id]))

\* the array routes of routes.js
RoutesJs ==
  <<[method |-> "GET", template |-> T_users,
     path |-> buildRoutePath(T_users), handler |-> 1],
    [method |-> "POST", template |-> T_users,
     path |-> buildRoutePath(T_users), handler |-> 2],
    [method |-> "PUT", template |-> T_usersId,
     path |-> buildRoutePath(T_usersId), handler |-> 3],
    [method |-> "DELETE", template |-> T_usersId,
     path |-> buildRoutePath(T_usersId), handler |-> 4]>>

\* route.handler(req, res)
Handler(h, request, body, db, uuid) ==
  IF h = 1 THEN GetUsers(request, body, db, uuid)
  ELSE IF h = 2 THEN PostUsers(request, body, db, uuid)
  ELSE IF h = 3 THEN PutUser(request, body, db, uuid)
  ELSE DeleteUser(request, body, db, uuid)

\* routes.js is evaluated, then server.listen(3333)
StartUsersServer ==
  /\ phase = "loading"
  /\ routes' = RoutesJs
  /\ phase' = "listening"
  /\ UNCHANGED <<loadError, pc, req, res, calls, threw>>
  /\ UNCHANGED usersVars
  /\ UNCHANGED notUsers

\* the readFile of the constructor resolves: #database = JSON.parse(data)
LoadFile(content) ==
  /\ ~dbLoaded
  /\ dbLoaded' = TRUE
  /\ database' = content
  /\ UNCHANGED <<chunks, reqBody, listed>>
  /\ UNCHANGED routerVars
  /\ UNCHANGED notUsers

\* the readFile rejects: #persist() writes the current #database
LoadFails ==
  /\ ~dbLoaded
  /\ dbLoaded' = TRUE
  /\ UNCHANGED <<chunks, reqBody, listed, database>>
  /\ UNCHANGED routerVars
  /\ UNCHANGED notUsers

\* a request arrives: the callback awaits json()
UsersRequest(r) ==
  /\ phase = "listening"
  /\ pc \in {"idle", "done"}
  /\ r.method = "POST" => Len(Table(database)) < MaxUsers
  /\ pc' = "json"
  /\ req' = [method |-> r.method, url |-> r.url, params |-> Undefined,
             query |-> Undefined]
  /\ chunks' = r.text
  /\ reqBody' = NullBody
  /\ listed' = <<>>
  /\ res' = NoResponse
  /\ calls' = <<>>
  /\ threw' = FALSE
  /\ UNCHANGED <<phase, routes, loadError, database, dbLoaded>>
  /\ UNCHANGED notUsers

\* json() resolved: the route is found and its handler runs.  An exception
\* in the handler rejects the promise of the callback: no response is
\* written, and the process goes on or exits as the runtime treats
\* unhandled rejections.
HandleRequest(uuid) ==
  /\ phase = "listening"
  /\ pc = "json"
  /\ pc' = "done"
  /\ reqBody' = Json(chunks)
  /\ LET route == Find(routes, req.method, req.url) IN
       IF route # 0
         THEN LET routeParams == RegExpMatch(routes[route].path, req.url)
                  request == [req EXCEPT
                                !.params = RestParams(routeParams.groups),
                                !.query =
                                  DecodeQuery(routeParams.groups[QueryName])]
                  out == Handler(routes[route].handler, request,
                                 Json(chunks), database, uuid)
              IN  /\ out.status = 201 =>
                       \A k \in 1..Len(Table(database)) :
                         Table(database)[k].id # uuid
                  /\ req' = request
                  /\ calls' = Append(calls, routes[route].handler)
                  /\ threw' = out.threw
                  /\ res' = IF out.threw THEN NoResponse
                            ELSE [status |-> out.status, body |-> out.body,
                                  handler |-> routes[route].handler]
                  /\ listed' = out.listed
                  /\ database' = out.db
                  /\ phase' \in IF out.threw THEN {"listening", "crashed"}
                                ELSE {"listening"}
         ELSE /\ res' = [status |-> 404, body |-> "Not Found", handler |-> 0]
              /\ UNCHANGED <<phase, req, calls, threw, listed, database>>
  /\ UNCHANGED <<chunks, dbLoaded, loadError>>
  /\ UNCHANGED notUsers

\* mutation of UsersDispatch: the dispatch reverses the table in place
UsersDispatch_reverse ==
  /\ \E uuid \in Uuids : HandleRequest(uuid)
  /\ routes' = [i \in 1..Len(routes) |-> routes[Len(routes) + 1 - i]]

\* the rest of the callback: the table routes is only read
UsersDispatch ==
  /\ \E uuid \in Uuids : HandleRequest(uuid)
  /\ UNCHANGED routes

NextUsers ==
  \/ StartUsersServer
  \/ \E content \in FileContents : LoadFile(content)
  \/ LoadFails
  \/ \E r \in UsersRequests : UsersRequest(r)
  \/ UsersDispatch

SpecUsers == Init /\ [][NextUsers]_vars

\* C14: while the server listens no step changes the route table: after any
\* sequence of requests, matched, unmatched or ended by an exception in the
\* handler, it holds the routes of routes.js in their order.
C14_RouteTableUnchangedByDispatch ==
  [][phase = "listening" => routes' = routes]_vars

C14_Witness ==
  /\ phase = "listening" /\ pc = "done" /\ threw
  /\ calls = <<3>>
  /\ routes = RoutesJs

\* the step in which the callback of a request with method m finishes
Finishes(m) == pc = "json" /\ pc' = "done" /\ req.method = m

\* the stored users with identifier id, by position
Stored(db, id) == {k \in 1..Len(Table(db)) : Table(db)[k].id = id}

\* C16: when PUT /users/:id is answered 204 and the body supplies only one
\* of name and email, the stored user with that id has the supplied value in
\* that field and the value it had before the request in the other field.
C16_PutKeepsUnsuppliedField ==
  [][(/\ Finishes("PUT")
      /\ res'.status = 204
      /\ (chunks.name = Undefined) # (chunks.email = Undefined))
       => /\ Len(Table(database')) = Len(Table(database))
          /\ \A k \in Stored(database, req'.params[K_id]) :
               LET before == Table(database)[k]
                   after == Table(database')[k]
               IN  /\ after.id = before.id
                   /\ after.name = IF chunks.name = Undefined
                                     THEN before.name ELSE chunks.name
                   /\ after.email = IF chunks.email = Undefined
                                      THEN before.email ELSE chunks.email]_vars

\* C17: when PUT /users/:id or DELETE /users/:id is answered 204, a user
\* with that id was stored when the handler ran, and after it that user
\* carries the fields of the body (PUT) or is stored no more (DELETE).
C17_NoContentMeansEffect ==
  [][((Finishes("PUT") \/ Finishes("DELETE")) /\ res'.status = 204)
       => LET id == req'.params[K_id] IN
          /\ Stored(database, id) # {}
          /\ req.method = "DELETE" => Stored(database', id) = {}
          /\ req.method = "PUT" => Stored(database', id) # {}]_vars

\* the text of the body is not JSON or has no non-empty name or email
LacksNameOrEmail(text) ==
  \/ ~text.json
  \/ text.name \in {Undefined, <<>>}
  \/ text.email \in {Undefined, <<>>}

\* C18: when POST /users finishes, either the body is not valid JSON or
\* lacks a non-empty name or email, the answer is 400 and the database is
\* as before; or the answer is 201 and the table is the one before with one
\* row appended, which carries the name and the email of the body and an
\* id no row had before.
C18_PostValidatesThenAppends ==
  [][(Finishes("POST") /\ UrlPath(req.url) = T_users)
       => IF LacksNameOrEmail(chunks)
            THEN res'.status = 400 /\ database' = database
            ELSE LET old == Table(database)
                     new == Table(database')
                 IN  /\ res'.status = 201
                     /\ Len(new) = Len(old) + 1
                     /\ SubSeq(new, 1, Len(old)) = old
                     /\ new[Len(new)].name = chunks.name
                     /\ new[Len(new)].email = chunks.email
                     /\ Stored(database, new[Len(new)].id) = {}]_vars

C18_Witness ==
  /\ pc = "done" /\ req.method = "POST" /\ res.status = 201
  /\ Len(Table(database)) = 2
  /\ Table(database)[1].id # Table(database)[2].id
  /\ Table(database)[2].name = chunks.name
  /\ Table(database)[2].email = chunks.email

\* the string v contains s when letters are compared without their case
ContainsIgnoringCase(v, s) ==
  /\ v # Undefined
  /\ \E off \in 0..(Len(v) - Len(s)) :
       \A k \in 1..Len(s) : ToLowerChar(v[off + k]) = ToLowerChar(s[k])

\* C19: GET /users?search=s is answered 200 with the stored users whose name
\* or email contains s, letters compared without their case, in the order
\* of the store, and GET /users with all the stored users.
C19_SearchReturnsContaining ==
  [][Finishes("GET")
       => /\ req.url = T_users
               => res'.status = 200 /\ listed' = Table(database)
          /\ \A s \in Searches :
               req.url = SearchUrl(s)
                 => /\ res'.status = 200
                    /\ listed' =
                         SelectSeq(Table(database),
                                   LAMBDA row :
                                     \/ ContainsIgnoringCase(row.name, s)
                                     \/ ContainsIgnoringCase(row.email, s))]_vars

\* C23: when the callback of a request has finished, it did not end in an
\* exception and one response was written: that of a handler (200, 201,
\* 204, 400) or the 404.
C23_EveryRequestAnswered ==
  pc = "done" => ~threw /\ res.status \in {200, 201, 204, 400, 404}

\* ------------------------------------------------------------------------
\* The items server of documented-parameters.js
\* ------------------------------------------------------------------------

\* the most items the array holds
MaxItems == 2

R_items == <<"i","t","e","m","s">>
K_name == <<"n","a","m","e">>
K_value == <<"v","a","l","u","e">>

\* member values of a body: two names, the string "10", the number 10
V_example == <<"e","x","a","m","p","l","e">>
V_other == <<"o","t","h","e","r">>
V_10 == <<"1","0">>
V_number10 == <<"number:10">>

\* the text of a body: JSON text of an object with the members name and
\* value that are not Undefined
ItemsObject(n, v) == [json |-> TRUE, name |-> n, value |-> v]

ItemsNullBody == [isNull |-> TRUE, name |-> Undefined, value |-> Undefined]

\* requestBody = JSON.parse(text), or null when the parse throws
ItemsJson(text) ==
  IF text.json
    THEN [isNull |-> FALSE, name |-> text.name, value |-> text.value]
    ELSE ItemsNullBody

DigitSeq == <<"0","1","2","3","4","5","6","7","8","9">>

U_items == <<"/">> \o R_items

ItemUrl(k) == U_items \o <<"/", DigitSeq[k + 1]>>

Q_nameValue ==
  K_name \o <<"=">> \o V_example \o <<"&">> \o K_value \o <<"=">> \o V_10

Q_name == K_name \o <<"=">> \o V_example

U_itemsFilter == U_items \o <<"?">> \o Q_nameValue
U_itemsSlashFilter == U_items \o <<"/", "?">> \o Q_nameValue
U_itemsSlashName == U_items \o <<"/", "?">> \o Q_name

ItemsRequests ==
  {[method |-> "GET", url |-> u, text |-> ItemsNotJson] :
     u \in {U_items, U_itemsFilter, U_itemsSlashFilter, U_itemsSlashName,
            T_users}}
  \cup {[method |-> "POST", url |-> U_items, text |-> b] :
          b \in {ItemsNotJson, ItemsObject(V_example, Undefined),
                 ItemsObject(V_example, V_number10),
                 ItemsObject(V_example, V_10),
                 ItemsObject(V_other, V_number10)}}
  \cup {[method |-> "PUT", url |-> ItemUrl(1), text |-> b] :
          b \in {ItemsNotJson, ItemsObject(Undefined, V_10),
                 ItemsObject(V_other, Undefined)}}
  \cup {[method |-> "DELETE", url |-> u, text |-> ItemsNotJson] :
          u \in {U_items} \cup {ItemUrl(k) : k \in 1..MaxItems}}

\* url.split("/").filter(Boolean)
RouteParts(url) == SelectSeq(Split(url, "/"), LAMBDA piece : piece # <<>>)

\* the text after the first '?' of the url: the search of new URL(url, base)
\* without its '?', for a url without '#'
SearchOf(url) ==
  LET k == IndexFrom(url, "?", 1) IN
  IF k = 0 THEN <<>> ELSE SubSeq(url, k + 1, Len(url))

\* URLSearchParams decodes '+' as a space (the inputs hold no '%')
PlusToSpace(text) ==
  [k \in 1..Len(text) |-> IF text[k] = "+" THEN " " ELSE text[k]]

\* name and value of one entry of the search: split at its first '='
EntryName(seg) ==
  LET k == IndexFrom(seg, "=", 1) IN
  PlusToSpace(IF k = 0 THEN seg ELSE SubSeq(seg, 1, k - 1))

EntryValue(seg) ==
  LET k == IndexFrom(seg, "=", 1) IN
  PlusToSpace(IF k = 0 THEN <<>> ELSE SubSeq(seg, k + 1, Len(seg)))

\* parseQueryParams(url): Object.fromEntries(searchParams.entries()); empty
\* entries are skipped and the last entry of a name wins
parseQueryParams(url) ==
  LET segs == SelectSeq(Split(SearchOf(url), "&"), LAMBDA seg : seg # <<>>)
      last(name) == CHOOSE i \in 1..Len(segs) :
                      /\ EntryName(segs[i]) = name
                      /\ \A j \in (i + 1)..Len(segs) : EntryName(segs[j]) # name
  IN  [name \in {EntryName(segs[i]) : i \in 1..Len(segs)} |->
         EntryValue(segs[last(name)])]

\* item[key]: the id is a number, which no string of a query equals
NumberId == <<"number:id">>

ItemMember(item, key) ==
  IF key = K_name THEN item.name
  ELSE IF key = K_value THEN item.value
  ELSE IF key = K_id THEN NumberId
  ELSE Undefined

\* Object.entries(queryParams).every(([key, value]) => item[key] === value)
ItemMatches(item, parsed) ==
  \A key \in DOMAIN parsed : ItemMember(item, key) = parsed[key]

\* parseInt(text, 10): the number its leading digits write, 0 - 1 for NaN
RECURSIVE ParseIntFrom(_, _, _)
ParseIntFrom(text, i, acc) ==
  IF i <= Len(text) /\ text[i] \in Digits
    THEN ParseIntFrom(text, i + 1,
                      10 * acc + (CHOOSE d \in 0..9 : DigitSeq[d + 1] = text[i]))
    ELSE acc

ParseInt(text) ==
  IF text # <<>> /\ text[1] \in Digits THEN ParseIntFrom(text, 1, 0) ELSE 0 - 1

\* items.findIndex((item) => item.id === id), counted from 1; 0 for none
RECURSIVE ItemIndexFrom(_, _, _)
ItemIndexFrom(its, i, id) ==
  IF i > Len(its) THEN 0
  ELSE IF its[i].id = id THEN i
  ELSE ItemIndexFrom(its, i + 1, id)

ItemsReply(status, text, payload, its) ==
  [status |-> status, text |-> text, payload |-> payload, items |-> its]

\* GET /items
ListItems(url, its) ==
  LET parsed == parseQueryParams(url) IN
  IF DOMAIN parsed # {}
    THEN ItemsReply(200, "items",
                    SelectSeq(its, LAMBDA item : ItemMatches(item, parsed)),
                    its)
    ELSE ItemsReply(200, "items", its, its)

\* POST /items
AddItem(requestBody, its) ==
  IF requestBody.isNull \/ ~Truthy(requestBody.name)
       \/ ~Truthy(requestBody.value)
    THEN ItemsReply(400, "Bad Request: Missing name or value in request body",
                    <<>>, its)
    ELSE LET newItem == [id |-> Len(its) + 1, name |-> requestBody.name,
                         value |-> requestBody.value]
         IN  ItemsReply(201, "item", <<newItem>>, Append(its, newItem))

\* PUT /items/:id
UpdateItem(routeParam, requestBody, its) ==
  LET itemIndex == ItemIndexFrom(its, 1, ParseInt(routeParam)) IN
  IF itemIndex = 0 THEN ItemsReply(404, "Item not found", <<>>, its)
  ELSE IF requestBody.isNull
            \/ (~Truthy(requestBody.name) /\ ~Truthy(requestBody.value))
    THEN ItemsReply(400, "Bad Request: Missing name or value in request body",
                    <<>>, its)
  ELSE LET merged ==
             [id |-> its[itemIndex].id,
              name |-> IF requestBody.name # Undefined
                         THEN requestBody.name ELSE its[itemIndex].name,
              value |-> IF requestBody.value # Undefined
                          THEN requestBody.value ELSE its[itemIndex].value]
       IN  ItemsReply(200, "item", <<merged>>,
                      [its EXCEPT ![itemIndex] = merged])

\* DELETE /items/:id
RemoveItem(routeParam, its) ==
  LET itemIndex == ItemIndexFrom(its, 1, ParseInt(routeParam)) IN
  IF itemIndex = 0 THEN ItemsReply(404, "Item not found", <<>>, its)
  ELSE ItemsReply(204, "", <<>>,
                  SubSeq(its, 1, itemIndex - 1)
                    \o SubSeq(its, itemIndex + 1, Len(its)))

\* the callback once requestBody is set
ItemsRespond(method, url, requestBody, its) ==
  LET parts == RouteParts(url)
      route == IF Len(parts) >= 1 THEN parts[1] ELSE Undefined
      routeParam == IF Len(parts) >= 2 THEN parts[2] ELSE Undefined
  IN  IF method = "GET" /\ route = R_items THEN ListItems(url, its)
      ELSE IF method = "POST" /\ route = R_items
        THEN AddItem(requestBody, its)
      ELSE IF method = "PUT" /\ route = R_items /\ Truthy(routeParam)
        THEN UpdateItem(routeParam, requestBody, its)
      ELSE IF method = "DELETE" /\ route = R_items /\ Truthy(routeParam)
        THEN RemoveItem(routeParam, its)
      ELSE ItemsReply(404, "Not Found", <<>>, its)

\* a POST or PUT request arrives: the callback reads the body
ItemsReceive(r) ==
  /\ ipc \in {"idle", "done"}
  /\ r.method \in {"POST", "PUT"}
  /\ r.method = "POST" => Len(items) < MaxItems
  /\ ipc' = "body"
  /\ iReq' = r
  /\ iRes' = NoItemsResponse
  /\ UNCHANGED items
  /\ UNCHANGED notItems

\* the body was read: it is parsed and the request answered
ItemsAnswer ==
  /\ ipc = "body"
  /\ ipc' = "done"
  /\ LET out == ItemsRespond(iReq.method, iReq.url, ItemsJson(iReq.text),
                             items)
     IN  /\ iRes' = [status |-> out.status, text |-> out.text,
                     payload |-> out.payload]
         /\ items' = out.items
  /\ UNCHANGED iReq
  /\ UNCHANGED notItems

\* a request with another method arrives: requestBody stays null and the
\* callback answers without waiting
ItemsServe(r) ==
  /\ ipc \in {"idle", "done"}
  /\ r.method \notin {"POST", "PUT"}
  /\ ipc' = "done"
  /\ iReq' = r
  /\ LET out == ItemsRespond(r.method, r.url, ItemsNullBody, items)
     IN  /\ iRes' = [status |-> out.status, text |-> out.text,
                     payload |-> out.payload]
         /\ items' = out.items
  /\ UNCHANGED notItems

NextItems ==
  \/ \E r \in ItemsRequests : ItemsReceive(r)
  \/ ItemsAnswer
  \/ \E r \in ItemsRequests : ItemsServe(r)

SpecItems == Init /\ [][NextItems]_vars

\* the value is 10, written as a number or as a string
IsTen(v) == v \in {V_number10, V_10}

\* C15: GET /items?name=example&value=10 is answered 200 with the stored
\* items whose name is 'example' and whose value is 10, in the order of the
\* store, the items created by POST /items with {"name": "example",
\* "value": 10} among them.
C15_QueryFilterReturnsMatches ==
  (ipc = "done" /\ iReq.method = "GET" /\ iReq.url = U_itemsFilter)
    => /\ iRes.status = 200
       /\ iRes.payload =
            SelectSeq(items,
                      LAMBDA item : item.name = V_example /\ IsTen(item.value))

\* ------------------------------------------------------------------------
\* The users server that keeps its users in the array users
\* ------------------------------------------------------------------------

MemoryRequests ==
  {[method |-> "GET", url |-> u, text |-> NotJson] :
     u \in {T_users, UserUrl(Uuid(1))}}
  \cup {[method |-> "POST", url |-> T_users, text |-> b] :
          b \in {NotJson, JsonObject(N_an, Undefined),
                 JsonObject(N_Jo, E_jx), JsonObject(N_an, E_jx)}}
  \cup {[method |-> "DELETE", url |-> T_users, text |-> NotJson]}

\* a request arrives on connection c: the callback starts to read the body
\* (POST requests stop arriving once the array holds MaxUsers users)
MemoryRequest(c, r) ==
  /\ conns[c].pc \in {"idle", "done"}
  /\ r.method = "POST" => Len(users) < MaxUsers
  /\ conns' = [conns EXCEPT ![c] =
                 [pc |-> "reading", method |-> r.method, url |-> r.url,
                  text |-> r.text, status |-> 0, text_out |-> ""]]
  /\ UNCHANGED users
  /\ UNCHANGED notMemory

\* mutation of NextId: the length of the array, without the + 1
NextId_length(us) == Len(us)

\* id: users.length + 1
NextId(us) == Len(us) + 1

\* the callback of connection c once the body was read, up to its return:
\* no await separates the validation, the push and the response
MemoryRespond(c) ==
  /\ conns[c].pc = "reading"
  /\ LET body == Json(conns[c].text)
         reply(status, text) ==
           [conns EXCEPT ![c].pc = "done", ![c].status = status,
                         ![c].text_out = text]
     IN  IF conns[c].method = "GET" /\ conns[c].url = T_users
           THEN /\ conns' = reply(200, "users")
                /\ UNCHANGED users
         ELSE IF conns[c].method = "POST" /\ conns[c].url = T_users
           THEN IF body.isNull \/ ~Truthy(body.name) \/ ~Truthy(body.email)
                  THEN /\ conns' = reply(400,
                                         "Bad Request: Missing name or email")
                       /\ UNCHANGED users
                  ELSE /\ users' = Append(users,
                                          [id |-> NextId(users),
                                           name |-> body.name,
                                           email |-> body.email])
                       /\ conns' = reply(201, "User created successfully")
         ELSE /\ conns' = reply(404, "Not Found")
              /\ UNCHANGED users
  /\ UNCHANGED notMemory

NextMemory ==
  \/ \E c \in Conns, r \in MemoryRequests : MemoryRequest(c, r)
  \/ \E c \in Conns : MemoryRespond(c)

SpecMemory == Init /\ [][NextMemory]_vars

\* C20: the users of the array have pairwise distinct ids and the k-th user
\* of the array, which is the k-th created, has id k, whatever requests are
\* reading their bodies.
C20_IdsAreCreationOrder ==
  /\ \A k \in 1..Len(users) : users[k].id = k
  /\ \A j, k \in 1..Len(users) : j # k => users[j].id # users[k].id

\* one user more than MaxUsers is stored: a POST whose body read began while
\* fewer than MaxUsers users were stored pushed after another push
C20_Witness ==
  /\ Len(users) = MaxUsers + 1
  /\ users[MaxUsers + 1].id = MaxUsers + 1
  /\ \E c \in Conns : conns[c].pc = "done" /\ conns[c].status = 201

\* ------------------------------------------------------------------------
\* The upload demo: fake-upload-to-http-steam.js and stream-http-server.js
\* ------------------------------------------------------------------------

\* if (i > 5) of the client's _read
UploadLimit == 5

\* String(n) of an integer n
RECURSIVE NaturalToString(_)
NaturalToString(n) ==
  IF n < 10 THEN <<DigitSeq[n + 1]>>
  ELSE NaturalToString(n \div 10) \o <<DigitSeq[(n % 10) + 1]>>

NumberToString(n) ==
  IF n < 0 THEN <<"-">> \o NaturalToString(0 - n) ELSE NaturalToString(n)

\* Number(text) of the decimal text of an integer
StringToNumber(text) ==
  IF text # <<>> /\ text[1] = "-"
    THEN 0 - ParseIntFrom(text, 2, 0)
    ELSE ParseIntFrom(text, 1, 0)

\* Buffer.concat(chunks).toString()
RECURSIVE ConcatFrom(_, _)
ConcatFrom(chunkList, i) ==
  IF i > Len(chunkList) THEN <<>>
  ELSE chunkList[i] \o ConcatFrom(chunkList, i + 1)

\* fetch reads the body: _read takes the index and sets the timer; no other
\* _read is made before the timer pushed
UploadRead ==
  /\ cpc = "fetching"
  /\ uTimer = 0
  /\ ~uEnded
  /\ uTimer' = uIndex
  /\ uIndex' = uIndex + 1
  /\ UNCHANGED <<uEnded, wire, buffers, spc, sOut, response, cpc, cOut>>
  /\ UNCHANGED notUpload

\* the timer fires: push(null) after UploadLimit, else push of String(i),
\* which fetch sends as request body
UploadTimeout ==
  /\ uTimer # 0
  /\ uTimer' = 0
  /\ IF uTimer > UploadLimit
       THEN uEnded' = TRUE /\ UNCHANGED wire
       ELSE wire' = wire \o NumberToString(uTimer) /\ UNCHANGED uEnded
  /\ UNCHANGED <<uIndex, buffers, spc, sOut, response, cpc, cOut>>
  /\ UNCHANGED notUpload

\* the request reaches the server: the callback starts its for await
ServerAccept ==
  /\ spc = "idle"
  /\ spc' = "reading"
  /\ UNCHANGED <<uIndex, uTimer, uEnded, wire, buffers, sOut, response, cpc,
                 cOut>>
  /\ UNCHANGED notUpload

\* one chunk of the request: the next n characters sent
ServerChunk(n) ==
  /\ spc = "reading"
  /\ n \in 1..Len(wire)
  /\ buffers' = Append(buffers, SubSeq(wire, 1, n))
  /\ wire' = SubSeq(wire, n + 1, Len(wire))
  /\ UNCHANGED <<uIndex, uTimer, uEnded, spc, sOut, response, cpc, cOut>>
  /\ UNCHANGED notUpload

\* the request ended: the content is logged and returned from the callback;
\* nothing is written to res
ServerReturn ==
  /\ spc = "reading"
  /\ uEnded /\ wire = <<>>
  /\ spc' = "returned"
  /\ sOut' = Append(sOut, ConcatFrom(buffers, 1))
  /\ UNCHANGED <<uIndex, uTimer, uEnded, wire, buffers, response, cpc, cOut>>
  /\ UNCHANGED notUpload

\* the promise of fetch settles: with the response, whose text and status
\* are logged, or, when none came in time, with an error that is logged
FetchSettles ==
  /\ cpc = "fetching"
  /\ IF response.status # 0
       THEN /\ cpc' = "printed"
            /\ cOut' = cOut \o <<response.body,
                                 <<"Código rodou, response status: ">>
                                   \o NumberToString(response.status)>>
       ELSE /\ spc = "returned"
            /\ cpc' = "caught"
            /\ cOut' = Append(cOut, <<"Response error: ", "fetch failed">>)
  /\ UNCHANGED <<uIndex, uTimer, uEnded, wire, buffers, spc, sOut, response>>
  /\ UNCHANGED notUpload

NextUpload ==
  \/ UploadRead
  \/ UploadTimeout
  \/ ServerAccept
  \/ \E n \in 1..UploadLimit : ServerChunk(n)
  \/ ServerReturn
  \/ FetchSettles

SpecUpload == Init /\ [][NextUpload]_vars

\* C21: once the callback of the server has returned, after the client's
\* stream sent 1 to 5 and ended, a response was written, and the fetch of
\* the client does not end in its catch.
C21_ServerAnswersUpload ==
  /\ spc = "returned" => response.status # 0
  /\ cpc # "caught"

\* ------------------------------------------------------------------------
\* The pipeline script: OndeToHundredStream, InverseNumberStream,
\* MultiplyByTenStream
\* ------------------------------------------------------------------------

\* if (i > 100) of _read
PipelineLimit == 100

\* the most chunks a stream buffers before the one before it is paused
MaxBuffered == 2

\* the classes the script declares
DeclaredClasses ==
  {"OndeToHundredStream", "InverseNumberStream", "MultiplyByTenStream"}

\* the identifier the last statement of the script instantiates
ScriptEntry == "OneToHundredStream"

\* that identifier, and the name of the readable class as it is declared,
\* with which the three classes are piped
EntryNames == {ScriptEntry, "OndeToHundredStream"}

\* new <name>().pipe(new InverseNumberStream()).pipe(new
\* MultiplyByTenStream()): an identifier that is not declared throws a
\* ReferenceError, which ends the script
Evaluate(name) ==
  /\ ppc = "start"
  /\ pEntry' = name
  /\ ppc' = IF name \in DeclaredClasses THEN "running" ELSE "failed"
  /\ UNCHANGED <<pIndex, pTimer, pEnded, srcBuf, midBuf, printed>>
  /\ UNCHANGED notPipeline

\* _read: takes the index and sets the timer; no other _read is made
\* before the timer pushed, nor while the buffer is full
PipelineRead ==
  /\ ppc = "running"
  /\ pTimer = 0
  /\ ~pEnded
  /\ Len(srcBuf) < MaxBuffered
  /\ pTimer' = pIndex
  /\ pIndex' = pIndex + 1
  /\ UNCHANGED <<ppc, pEntry, pEnded, srcBuf, midBuf, printed>>
  /\ UNCHANGED notPipeline

\* the timer fires: push(null) after PipelineLimit, else push of String(i)
PipelineTimeout ==
  /\ pTimer # 0
  /\ pTimer' = 0
  /\ IF pTimer > PipelineLimit
       THEN pEnded' = TRUE /\ UNCHANGED srcBuf
       ELSE srcBuf' = Append(srcBuf, NumberToString(pTimer))
            /\ UNCHANGED pEnded
  /\ UNCHANGED <<ppc, pEntry, pIndex, midBuf, printed>>
  /\ UNCHANGED notPipeline

\* InverseNumberStream._transform of the oldest chunk pushed
InverseTransform ==
  /\ srcBuf # <<>>
  /\ Len(midBuf) < MaxBuffered
  /\ LET transformed == StringToNumber(Head(srcBuf)) * (0 - 1) IN
       midBuf' = Append(midBuf, NumberToString(transformed))
  /\ srcBuf' = Tail(srcBuf)
  /\ UNCHANGED <<ppc, pEntry, pIndex, pTimer, pEnded, printed>>
  /\ UNCHANGED notPipeline

\* MultiplyByTenStream._write of the oldest chunk transformed
MultiplyWrite ==
  /\ midBuf # <<>>
  /\ printed' = Append(printed, StringToNumber(Head(midBuf)) * 10)
  /\ midBuf' = Tail(midBuf)
  /\ UNCHANGED <<ppc, pEntry, pIndex, pTimer, pEnded, srcBuf>>
  /\ UNCHANGED notPipeline

\* the end of the readable went through the pipes: the writable finished
PipelineFinish ==
  /\ ppc = "running"
  /\ pEnded /\ srcBuf = <<>> /\ midBuf = <<>>
  /\ ppc' = "finished"
  /\ UNCHANGED <<pEntry, pIndex, pTimer, pEnded, srcBuf, midBuf, printed>>
  /\ UNCHANGED notPipeline

NextPipeline ==
  \/ \E name \in EntryNames : Evaluate(name)
  \/ PipelineRead
  \/ PipelineTimeout
  \/ InverseTransform
  \/ MultiplyWrite
  \/ PipelineFinish

SpecPipeline == Init /\ [][NextPipeline]_vars

\* -10, -20, ..., -1000
ExpectedOutput == [k \in 1..100 |-> 0 - (10 * k)]

\* C22: running the script as it is written, what is printed is at every
\* moment the beginning of -10, -20, ..., -1000, and when the script is over
\* all of it was printed; the script does not end in an exception.
C22_PipelinePrintsAll ==
  pEntry = ScriptEntry
    => /\ ppc # "failed"
       /\ Len(printed) <= Len(ExpectedOutput)
       /\ printed = SubSeq(ExpectedOutput, 1, Len(printed))
       /\ ppc = "finished" => printed = ExpectedOutput

\* with the readable class named as it is declared, the three classes print
\* -10, -20, ..., -1000 in that order, each once, and then the stream ends
PipelineClassesPrintAll ==
  pEntry # ScriptEntry
    => /\ ppc # "failed"
       /\ Len(printed) <= Len(ExpectedOutput)
       /\ printed = SubSeq(ExpectedOutput, 1, Len(printed))
       /\ ppc = "finished" => printed = ExpectedOutput

====
